---- MODULE Spec2Model ----
(***************************************************************************)
(* A model of src/src/dataset.py: the DataSet class, its constructor       *)
(* validation, filter_by_value, relate_dataset and the data property       *)
(* (join resolution through _update_record_with_foreign_data).             *)
(*                                                                         *)
(* Python objects are modelled as a heap.  A record (a dict) is a heap     *)
(* cell of `store`, addressed by its identity; a DataSet holds a list of   *)
(* record identities, since filter_by_value puts the very same dict        *)
(* objects into the subset it builds.  A relation list is a heap cell of   *)
(* `rels`, since filter_by_value hands the parent's list object to the     *)
(* subset.                                                                 *)
(***************************************************************************)
EXTENDS Integers, Sequences, FiniteSets, TLC

VARIABLES
    store,    \* record identity -> the dict's present content
    store0,   \* record identity -> the dict's content when it was loaded
    ds,       \* the DataSet objects, in order of construction
    origin,   \* for each DataSet, the filter call that built it (or none)
    rels,     \* relation-list identity -> list of DataSetRelation
    last,     \* the most recent call, its arguments and its outcome
    budget    \* number of calls the run may still make

vars == <<store, store0, ds, origin, rels, last, budget>>

----------------------------------------------------------------------------
(* Bounds of the model *)

\* records in the collection the filter runs load
MaxRecs == 2
\* calls in a run of relate, filter and read calls
MaxOps == 4
\* calls in a run of filter calls
MaxFilters == 2

----------------------------------------------------------------------------
(* Values *)

\* names a DataSet can carry
Names == {"Users", "Tickets"}

\* the keys a dict can hold, in Python's string order ("_" sorts before letters)
FieldOrder == <<"_foreign_fields", "k", "l">>

AllFields == {FieldOrder[i] : i \in DOMAIN FieldOrder}

\* the keys of loaded data
DataFields == {"k", "l"}

\* _foreign_fields maps a data set name to a list of records; a name with an
\* empty list is a name without an entry
EmptyMap == [nm \in Names |-> <<>>]

\* a value with its Python type; n is the number of a bool, int or float
\* (True is 1, False is 0), s the text of a str, e the elements of a list,
\* m the entries of a defaultdict
Val(t, n, s, e, m) == [t |-> t, n |-> n, s |-> s, e |-> e, m |-> m]

\* a key the dict does not hold
Absent == Val("absent", 0, "", <<>>, EmptyMap)

Null == Val("NoneType", 0, "", <<>>, EmptyMap)

IntV(n) == Val("int", n, "", <<>>, EmptyMap)

BoolV(b) == Val("bool", IF b THEN 1 ELSE 0, "", <<>>, EmptyMap)

StrV(s) == Val("str", 0, s, <<>>, EmptyMap)

\* an element of a list carries no list or dict of its own
Elem(v) == [t |-> v.t, n |-> v.n, s |-> v.s]

ListV(vs) == Val("list", 0, "", [i \in DOMAIN vs |-> Elem(vs[i])], EmptyMap)

DictV(m) == Val("defaultdict", 0, "", <<>>, m)

EmptyList == ListV(<<>>)

Numeric == {"bool", "int", "float"}

\* Python's == on two primitive values: numbers compare by value whatever
\* their type, None equals only None, a str equals only an equal str
ElemEq(a, b) ==
    IF a.t \in Numeric /\ b.t \in Numeric THEN a.n = b.n
    ELSE IF a.t = "str" /\ b.t = "str" THEN a.s = b.s
    ELSE a.t = "NoneType" /\ b.t = "NoneType"

\* Python's == on two values
PyEq(a, b) ==
    IF a.t = "list" /\ b.t = "list"
    THEN /\ Len(a.e) = Len(b.e)
         /\ \A i \in DOMAIN a.e : ElemEq(a.e[i], b.e[i])
    ELSE IF a.t = "defaultdict" /\ b.t = "defaultdict" THEN a.m = b.m
    ELSE IF a.t \in {"list", "defaultdict"} \/ b.t \in {"list", "defaultdict"} THEN FALSE
    ELSE ElemEq(Elem(a), Elem(b))

\* value in lst
Member(v, lst) == \E i \in DOMAIN lst.e : ElemEq(Elem(v), lst.e[i])

\* record.get(field)
Get(rec, f) == IF rec[f].t = "absent" THEN Null ELSE rec[f]

\* record.get(field, [])
GetOrEmpty(rec, f) == IF rec[f].t = "absent" THEN EmptyList ELSE rec[f]

\* field in record.keys()
HasKey(rec, f) == rec[f].t # "absent"

----------------------------------------------------------------------------
(* DataSet construction *)

\* a mapping without keys (field_type_mapping, list_field_type_mapping)
NoTypes == [f \in AllFields |-> "-"]

\* _get_data_fields: the sorted list of every key of every record
GetDataFields(st, data) ==
    SelectSeq(FieldOrder, LAMBDA f : \E i \in DOMAIN data : HasKey(st[data[i]], f))

\* the types of the non-null values of a field
ValueTypes(st, data, f) ==
    {Get(st[data[i]], f).t : i \in DOMAIN data} \ {"NoneType"}

\* the loop over record[field] of a list field: the first record without
\* the key raises KeyError, the first whose value is None raises TypeError
ListScanStatus(st, data, f) ==
    LET bad == {i \in DOMAIN data : st[data[i]][f].t \in {"absent", "NoneType"}}
    IN  IF bad = {} THEN "ok"
        ELSE LET first == CHOOSE i \in bad : \A j \in bad : i <= j
             IN  IF st[data[first]][f].t = "absent" THEN "KeyError" ELSE "TypeError"

\* the types of the entries of every record's list
TypesInList(st, data, f) ==
    UNION {{st[data[i]][f].e[j].t : j \in DOMAIN st[data[i]][f].e} : i \in DOMAIN data}

\* one pass of the loop of _validate_data_types, over the field at position
\* i of the sorted field list; fm and lm are the two mappings built so far
RECURSIVE ValidateFrom(_, _, _, _, _, _)
ValidateFrom(st, data, fields, i, fm, lm) ==
    IF i > Len(fields) THEN [status |-> "ok", ftype |-> fm, ltype |-> lm]
    ELSE
    LET f == fields[i]
        vt == ValueTypes(st, data, f)
        fail(x) == [status |-> x, ftype |-> NoTypes, ltype |-> NoTypes]
    IN  IF Cardinality(vt) > 1 THEN fail("DataLoadException")
        ELSE IF Cardinality(vt) = 0 THEN fail("DataLoadException")
        ELSE
        LET ty == CHOOSE t \in vt : TRUE
        IN  IF ty = "dict" THEN fail("DataLoadException")
            ELSE IF ty = "list"
            THEN IF ListScanStatus(st, data, f) # "ok"
                 THEN fail(ListScanStatus(st, data, f))
                 ELSE LET tl == TypesInList(st, data, f)
                      IN  IF Cardinality(tl) # 1 THEN fail("DataLoadException")
                          ELSE ValidateFrom(st, data, fields, i + 1,
                                            [fm EXCEPT ![f] = ty],
                                            [lm EXCEPT ![f] = CHOOSE t \in tl : TRUE])
            ELSE ValidateFrom(st, data, fields, i + 1, [fm EXCEPT ![f] = ty], lm)

\* _validate_data_types
ValidateDataTypes(st, data, fields) == ValidateFrom(st, data, fields, 1, NoTypes, NoTypes)

\* DataSet.__init__, had it refused the key "_foreign_fields" whatever the
\* source of the records
ConstructAnySource(st, data, fromJson) ==
    LET fields == GetDataFields(st, data)
        v == ValidateDataTypes(st, data, fields)
    IN  IF \E i \in DOMAIN fields : fields[i] = "_foreign_fields"
        THEN [status |-> "DataLoadException", fields |-> fields,
              ftype |-> NoTypes, ltype |-> NoTypes]
        ELSE [status |-> v.status, fields |-> fields,
              ftype |-> v.ftype, ltype |-> v.ltype]

\* DataSet.__init__ on a list of records; fromJson tells a load from a JSON
\* file from a load of parsed data.  The outcome is "ok" or the exception.
Construct(st, data, fromJson) ==
    LET fields == GetDataFields(st, data)
        v == ValidateDataTypes(st, data, fields)
    IN  IF fromJson /\ \E i \in DOMAIN fields : fields[i] = "_foreign_fields"
        THEN [status |-> "DataLoadException", fields |-> fields,
              ftype |-> NoTypes, ltype |-> NoTypes]
        ELSE [status |-> v.status, fields |-> fields,
              ftype |-> v.ftype, ltype |-> v.ltype]

\* the DataSet object a successful construction leaves
NewDataSet(name, data, c, rel) ==
    [name |-> name, data |-> data, fields |-> c.fields,
     ftype |-> c.ftype, ltype |-> c.ltype, rel |-> rel]

----------------------------------------------------------------------------
(* filter_by_value *)

\* filter_by_value's guard, had it tested isinstance(value, field_data_type):
\* a bool is an instance of int
TypeMismatchByInstance(fieldType, v) ==
    /\ fieldType # "list"
    /\ v.t # "NoneType"
    /\ v.t # fieldType
    /\ ~(v.t = "bool" /\ fieldType = "int")

\* the guard of the DataSetException of filter_by_value
TypeMismatch(fieldType, v) ==
    /\ fieldType # "list"
    /\ v.t # "NoneType"
    /\ v.t # fieldType

\* the records a filter keeps, in the order of the data set
Kept(st, data, fieldType, f, v) ==
    IF fieldType = "list"
    THEN SelectSeq(data, LAMBDA r : Member(v, GetOrEmpty(st[r], f)))
    ELSE SelectSeq(data, LAMBDA r : PyEq(Get(st[r], f), v))

\* filter_by_value, had it handed the parent's schema to the subset instead
\* of constructing the subset from the kept records
FilterByValueUnvalidated(st, d, f, v) ==
    LET fieldType == d.ftype[f]
        none == [status |-> "ok", fields |-> <<>>, ftype |-> NoTypes, ltype |-> NoTypes]
        fail(x) == [status |-> x, kept |-> <<>>, c |-> none]
    IN  IF fieldType = "-" THEN fail("KeyError")
        ELSE IF TypeMismatch(fieldType, v) THEN fail("DataSetException")
        ELSE [status |-> "ok", kept |-> Kept(st, d.data, fieldType, f, v),
              c |-> [status |-> "ok", fields |-> d.fields,
                     ftype |-> d.ftype, ltype |-> d.ltype]]

\* filter_by_value up to the construction of the subset: the outcome, the
\* records kept and the schema inferred from them
FilterByValue(st, d, f, v) ==
    LET fieldType == d.ftype[f]
        kept == Kept(st, d.data, fieldType, f, v)
        none == [status |-> "ok", fields |-> <<>>, ftype |-> NoTypes, ltype |-> NoTypes]
        fail(x) == [status |-> x, kept |-> <<>>, c |-> none]
    IN  IF fieldType = "-" THEN fail("KeyError")
        ELSE IF TypeMismatch(fieldType, v) THEN fail("DataSetException")
        ELSE IF /\ fieldType = "list"
                /\ \E i \in DOMAIN d.data : st[d.data[i]][f].t = "NoneType"
        THEN fail("TypeError")
        ELSE LET c == Construct(st, kept, FALSE)
             IN  [status |-> c.status, kept |-> kept, c |-> c]

\* the end of filter_by_value, had it given the subset a copy of the
\* parent's relation list: the heap of relation lists gets a new list
SubsetRelationsCopied(rs, d) == [heap |-> Append(rs, rs[d.rel]), rel |-> Len(rs) + 1]

\* the end of filter_by_value: the subset's _dataset_relations is the
\* parent's list object, and the heap of relation lists stays as it is
SubsetRelations(rs, d) == [heap |-> rs, rel |-> d.rel]

----------------------------------------------------------------------------
(* relate_dataset *)

\* relate_dataset's guard, had it compared the DataSet objects and not their names
NameRelatedByIdentity(dss, relations, t) ==
    \E i \in DOMAIN relations : relations[i].foreign_data_set = t

\* the guard of the DataSetException of relate_dataset, for the target ds[t]
NameRelated(dss, relations, t) ==
    \E i \in DOMAIN relations : dss[relations[i].foreign_data_set].name = dss[t].name

\* a DataSetRelation
DataSetRelation(t, f, g) == [foreign_data_set |-> t, field |-> f, foreign_field |-> g]

----------------------------------------------------------------------------
(* the data property *)

\* the foreign_records of one relation for one record
ForeignRecords(st, dss, rec, relation) ==
    SelectSeq(dss[relation.foreign_data_set].data,
              LAMBDA r : PyEq(Get(rec, relation.field), Get(st[r], relation.foreign_field)))

\* the loop of _update_record_with_foreign_data from relation i on; m is
\* foreign_fields so far.  Yields foreign_fields and the foreign_records the
\* last pass of the loop left behind.
RECURSIVE ResolveFrom(_, _, _, _, _, _)
ResolveFrom(st, dss, rec, relations, i, m) ==
    LET fr == ForeignRecords(st, dss, rec, relations[i])
        nm == dss[relations[i].foreign_data_set].name
        m2 == IF fr # <<>> THEN [m EXCEPT ![nm] = m[nm] \o fr] ELSE m
    IN  IF i = Len(relations) THEN [foreign_fields |-> m2, foreign_records |-> fr]
        ELSE ResolveFrom(st, dss, rec, relations, i + 1, m2)

\* whether the record gets the _foreign_fields key, given the outcome of the loop
Attach(res) == res.foreign_records # <<>>

\* _update_record_with_foreign_data on the record with identity r: the heap
\* after the call (the dict is updated in place and returned)
UpdateRecordWithForeignData(st, dss, relations, r) ==
    IF HasKey(st[r], "_foreign_fields") \/ relations = <<>> THEN st
    ELSE LET res == ResolveFrom(st, dss, st[r], relations, 1, EmptyMap)
         IN  IF Attach(res)
             THEN [st EXCEPT ![r]["_foreign_fields"] = DictV(res.foreign_fields)]
             ELSE st

\* the list comprehension of the data property, from position i on
RECURSIVE DataFrom(_, _, _, _, _)
DataFrom(st, dss, relations, data, i) ==
    IF i > Len(data) THEN st
    ELSE DataFrom(UpdateRecordWithForeignData(st, dss, relations, data[i]),
                  dss, relations, data, i + 1)

----------------------------------------------------------------------------
(* Inputs *)

\* a record of loaded data with kv under "k" and lv under "l"
Rec(kv, lv) == [f \in AllFields |-> IF f = "k" THEN kv ELSE IF f = "l" THEN lv ELSE Absent]

\* the lists of exactly n records of rs that the constructor accepts as a
\* JSON load
Accepted(rs, n) ==
    {c \in [1..n -> rs] : Construct(c, [i \in DOMAIN c |-> i], TRUE).status = "ok"}

\* the records of the join runs: "k" is absent, null or 1, and there is no list
JoinRecords == {Rec(kv, Absent) : kv \in {Absent, Null, IntV(1)}}

\* the fields the join runs relate and filter on
JoinFields == {"k"}

\* the values the join runs filter by
JoinValues == {Null, IntV(1)}

\* the records of the filter runs: "k" is absent, null or 1 and "l" is a
\* list of ints, possibly empty
FilterRecords ==
    {Rec(kv, lv) : kv \in {Absent, Null, IntV(1)}, lv \in {ListV(<<IntV(1)>>), ListV(<<>>)}}

\* the collections of the filter runs
FilterCollections == UNION {Accepted(FilterRecords, n) : n \in 0..MaxRecs}

\* the values the filter runs filter by
FilterValues == {Null, IntV(1), BoolV(TRUE), StrV("s")}

\* a JSON object, which Python loads as a dict
ObjV == Val("dict", 0, "", <<>>, EmptyMap)

\* the records of the load runs: any of the three keys may be absent;
\* "_foreign_fields" holds 1, "k" holds null, 1, "s" or an object and "l"
\* holds null or a list of ints, of strs, of both or of nothing
LoadRecords ==
    {[f \in AllFields |-> IF f = "k" THEN kv ELSE IF f = "l" THEN lv ELSE fv] :
        fv \in {Absent, IntV(1)},
        kv \in {Absent, Null, IntV(1), StrV("s"), ObjV},
        lv \in {Absent, Null, ListV(<<IntV(1)>>), ListV(<<StrV("s")>>),
                ListV(<<IntV(1), StrV("s")>>), EmptyList}}

\* the collections of the load runs, accepted by the constructor or not
LoadCollections == UNION {[1..n -> LoadRecords] : n \in 0..MaxRecs}

\* what `last` holds before any call
NoCall ==
    [op |-> "none", d |-> 0, t |-> 0, f |-> "", g |-> "", v |-> Null,
     status |-> "ok", res |-> 0]

\* the origin of a DataSet that no filter built
Loaded == [parent |-> 0, f |-> "", v |-> Null]

----------------------------------------------------------------------------
(* The state machine *)

\* Two DataSets loaded from JSON, as main.py loads them: "Users" holds the
\* records 1 and 2 and "Tickets" the record 3; each has its own, empty
\* relation list.
Init ==
    \E c1 \in Accepted(JoinRecords, 2), c2 \in Accepted(JoinRecords, 1) :
        LET st == c1 \o c2
            d1 == [i \in DOMAIN c1 |-> i]
            d2 == [i \in DOMAIN c2 |-> Len(c1) + i]
        IN  /\ store = st
            /\ store0 = st
            /\ ds = <<NewDataSet("Users", d1, Construct(st, d1, TRUE), 1),
                      NewDataSet("Tickets", d2, Construct(st, d2, TRUE), 2)>>
            /\ origin = <<Loaded, Loaded>>
            /\ rels = <<<<>>, <<>>>>
            /\ last = NoCall
            /\ budget = MaxOps

\* One DataSet loaded from JSON, from any accepted collection of at most
\* MaxRecs records.
FilterInit ==
    \E c \in FilterCollections :
        LET d1 == [i \in DOMAIN c |-> i]
        IN  /\ store = c
            /\ store0 = c
            /\ ds = <<NewDataSet("Users", d1, Construct(c, d1, TRUE), 1)>>
            /\ origin = <<Loaded>>
            /\ rels = <<<<>>>>
            /\ last = NoCall
            /\ budget = MaxFilters

\* a list of records that no DataSet has been constructed from yet
LoadInit ==
    \E c \in LoadCollections :
        /\ store = c
        /\ store0 = c
        /\ ds = <<>>
        /\ origin = <<>>
        /\ rels = <<>>
        /\ last = NoCall
        /\ budget = 1

\* DataSet("Users", json_path=...) on a file holding the records, or
\* DataSet("Users", _parsed_data=records)
Load(fromJson) ==
    LET data == [i \in DOMAIN store |-> i]
        c == Construct(store, data, fromJson)
        call == [NoCall EXCEPT !.op = IF fromJson THEN "load_json" ELSE "load_parsed",
                               !.status = c.status]
    IN  /\ budget > 0
        /\ budget' = budget - 1
        /\ IF c.status = "ok"
           THEN /\ ds' = Append(ds, NewDataSet("Users", data, c, Len(rels) + 1))
                /\ origin' = Append(origin, Loaded)
                /\ rels' = Append(rels, <<>>)
                /\ last' = [call EXCEPT !.res = Len(ds) + 1]
           ELSE /\ UNCHANGED <<ds, origin, rels>>
                /\ last' = call
        /\ UNCHANGED <<store, store0>>

\* subset = ds[d].filter_by_value(f, v)
Filter(d, f, v) ==
    LET r == FilterByValue(store, ds[d], f, v)
        call == [NoCall EXCEPT !.op = "filter", !.d = d, !.f = f, !.v = v]
    IN  /\ budget > 0
        /\ budget' = budget - 1
        /\ IF r.status = "ok"
           THEN /\ ds' = Append(ds, NewDataSet(ds[d].name, r.kept, r.c,
                                                SubsetRelations(rels, ds[d]).rel))
                /\ rels' = SubsetRelations(rels, ds[d]).heap
                /\ origin' = Append(origin, [parent |-> d, f |-> f, v |-> v])
                /\ last' = [call EXCEPT !.res = Len(ds) + 1]
           ELSE /\ UNCHANGED <<ds, origin, rels>>
                /\ last' = [call EXCEPT !.status = r.status]
        /\ UNCHANGED <<store, store0>>

\* ds[d].relate_dataset(ds[t], f, g)
Relate(d, t, f, g) ==
    LET call == [NoCall EXCEPT !.op = "relate", !.d = d, !.t = t, !.f = f, !.g = g]
    IN  /\ budget > 0
        /\ budget' = budget - 1
        /\ IF NameRelated(ds, rels[ds[d].rel], t)
           THEN /\ UNCHANGED rels
                /\ last' = [call EXCEPT !.status = "DataSetException"]
           ELSE /\ rels' = [rels EXCEPT ![ds[d].rel] = Append(@, DataSetRelation(t, f, g))]
                /\ last' = call
        /\ UNCHANGED <<store, store0, ds, origin>>

\* ds[d].data
Read(d) ==
    /\ budget > 0
    /\ budget' = budget - 1
    /\ store' = DataFrom(store, ds, rels[ds[d].rel], ds[d].data, 1)
    /\ last' = [NoCall EXCEPT !.op = "read", !.d = d]
    /\ UNCHANGED <<store0, ds, origin, rels>>

\* any call of the join runs
Next ==
    \/ \E d \in DOMAIN ds, f \in JoinFields, v \in JoinValues : Filter(d, f, v)
    \/ \E d \in DOMAIN ds, t \in DOMAIN ds, f \in JoinFields, g \in JoinFields :
          Relate(d, t, f, g)
    \/ \E d \in DOMAIN ds : Read(d)

\* any call of the filter runs
FilterNext == \E d \in DOMAIN ds, f \in DataFields, v \in FilterValues : Filter(d, f, v)

LoadNext == \E fromJson \in BOOLEAN : Load(fromJson)

\* runs of relate, filter and read calls on two loaded DataSets
Spec == Init /\ [][Next]_vars

\* runs of filter calls on one loaded DataSet
FilterSpec == FilterInit /\ [][FilterNext]_vars

\* the construction of one DataSet from a list of records
LoadSpec == LoadInit /\ [][LoadNext]_vars

----------------------------------------------------------------------------
(* Properties of the construction *)

\* a construction has run on the records of the store
Loading == last.op \in {"load_json", "load_parsed"}

\* the field is a key of some record
Keyed(f) == \E i \in DOMAIN store0 : HasKey(store0[i], f)

\* the types of the non-null values the records hold for the field
NonNullTypes(f) == {store0[i][f].t : i \in DOMAIN store0} \ {"absent", "NoneType"}

\* the types of the elements of the lists the records hold for the field
ElemTypes(f) ==
    UNION {{store0[i][f].e[j].t : j \in DOMAIN store0[i][f].e} :
              i \in {i \in DOMAIN store0 : store0[i][f].t = "list"}}

\* the field makes the collection invalid: it is entirely null, of mixed
\* type, holds an object, or is a list field with elements of several types
Invalid(f) ==
    /\ Keyed(f)
    /\ \/ NonNullTypes(f) = {}
       \/ Cardinality(NonNullTypes(f)) > 1
       \/ "dict" \in NonNullTypes(f)
       \/ NonNullTypes(f) = {"list"} /\ Cardinality(ElemTypes(f)) > 1

\* every key has one non-null type, not an object, and every list field one
\* element type
ValidCollection ==
    \A f \in AllFields :
        Keyed(f) =>
            /\ Cardinality(NonNullTypes(f)) = 1
            /\ "dict" \notin NonNullTypes(f)
            /\ NonNullTypes(f) = {"list"} => Cardinality(ElemTypes(f)) = 1

\* the keys of the records in Python's string order
SortedKeys == SelectSeq(FieldOrder, Keyed)

\* C11: a construction from a collection with an invalid field raises
\* DataLoadException and leaves no DataSet.
C11_InvalidCollectionRejected ==
    (Loading /\ \E f \in AllFields : Invalid(f)) =>
        (last.status = "DataLoadException" /\ ds = <<>>)

\* C12: a construction from a valid collection (from parsed data, or from a
\* JSON file without the reserved key) succeeds, with the sorted keys as
\* fields and as many records as the input.
C12_ValidCollectionAccepted ==
    (/\ Loading
     /\ ValidCollection
     /\ last.op = "load_json" => ~Keyed("_foreign_fields")) =>
        /\ last.status = "ok"
        /\ ds # <<>>
        /\ ds[1].fields = SortedKeys
        /\ Len(ds[1].data) = Len(store0)

\* every list field holds a list on every record
ListsComplete ==
    \A f \in AllFields :
        NonNullTypes(f) = {"list"} => \A i \in DOMAIN store0 : store0[i][f].t = "list"

\* C13: when some record holds the key "_foreign_fields", a construction
\* from a JSON file raises DataLoadException and leaves no DataSet, while a
\* construction from parsed data of an otherwise acceptable collection
\* succeeds and has the key among its fields.
C13_ReservedKeyBySource ==
    (Loading /\ Keyed("_foreign_fields")) =>
        /\ last.op = "load_json" =>
               (last.status = "DataLoadException" /\ ds = <<>>)
        /\ (last.op = "load_parsed" /\ ValidCollection /\ ListsComplete) =>
               (/\ last.status = "ok"
                /\ \E i \in DOMAIN ds[1].fields : ds[1].fields[i] = "_foreign_fields")

\* parsed data holding the key "_foreign_fields" were accepted
C13_Witness ==
    /\ last.op = "load_parsed"
    /\ Keyed("_foreign_fields")
    /\ last.status = "ok"
    /\ Len(ds) = 1

----------------------------------------------------------------------------
(* Properties of the join *)

\* the records and the relations of the DataSet the last call was made on
LastData == ds[last.d].data

LastRelations == rels[ds[last.d].rel]

\* the name of the target of a relation
TargetName(relation) == ds[relation.foreign_data_set].name

\* the _foreign_fields entry of record r under a name (empty: no entry)
Entry(r, nm) == store[r]["_foreign_fields"].m[nm]

\* the records t of a relation's target with t[foreign_field] == r[field]:
\* both records hold their key and the two values are equal
Paired(r, relation) ==
    SelectSeq(ds[relation.foreign_data_set].data,
              LAMBDA t : /\ HasKey(store[r], relation.field)
                         /\ HasKey(store[t], relation.foreign_field)
                         /\ PyEq(store[r][relation.field], store[t][relation.foreign_field]))

\* C1: after a read of a DataSet with a single relation, every record r of
\* it carries under the target's name exactly the target's records t with
\* t[foreign_field] == r[field], in the target's order, and carries no
\* _foreign_fields at all when there is no such t.
C1_SingleRelationJoin ==
    (last.op = "read" /\ Len(LastRelations) = 1) =>
        \A i \in DOMAIN LastData :
            LET r == LastData[i]
                want == Paired(r, LastRelations[1])
            IN  IF want = <<>>
                THEN ~HasKey(store[r], "_foreign_fields")
                ELSE /\ HasKey(store[r], "_foreign_fields")
                     /\ Entry(r, TargetName(LastRelations[1])) = want

\* C2: whatever calls were made, every stored record is as it was loaded.
C2_StoredRecordsNeverChange == store = store0

\* C3: after a read of a DataSet with two or more relations, a record that
\* some relation matches carries _foreign_fields, with an entry for each
\* target that matched it and none for a target that did not.
C3_AnyRelationAttaches ==
    (last.op = "read" /\ Len(LastRelations) >= 2) =>
        \A i \in DOMAIN LastData :
            LET r == LastData[i]
                group(j) == ForeignRecords(store, ds, store[r], LastRelations[j])
            IN  (\E j \in DOMAIN LastRelations : group(j) # <<>>) =>
                    /\ HasKey(store[r], "_foreign_fields")
                    /\ \A j \in DOMAIN LastRelations :
                          Entry(r, TargetName(LastRelations[j])) = group(j)

\* C4: after a read, no record r carries a match t of a relation whose
\* field r lacks or whose foreign_field t lacks.
C4_MissingFieldNeverMatches ==
    last.op = "read" =>
        \A i \in DOMAIN LastData, j \in DOMAIN LastRelations :
            LET r == LastData[i]
                matched == Entry(r, TargetName(LastRelations[j]))
            IN  \A x \in DOMAIN matched :
                    /\ HasKey(store[r], LastRelations[j].field)
                    /\ HasKey(store[matched[x]], LastRelations[j].foreign_field)

\* no relation list holds two relations to targets of one name
NoDuplicateNames ==
    \A l \in DOMAIN rels : \A i, j \in DOMAIN rels[l] :
        i # j => TargetName(rels[l][i]) # TargetName(rels[l][j])

\* the call just made is a relate_dataset to a target whose name a target
\* already related carried before the call
RelatedAgain ==
    /\ last'.op = "relate"
    /\ \E i \in DOMAIN rels[ds[last'.d].rel] :
          TargetName(rels[ds[last'.d].rel][i]) = ds[last'.t].name

\* C10: every call leaves every relation list without two relations to
\* targets of one name, and a relate_dataset to a name already related
\* raises DataSetException and leaves every relation list as it was.
C10_OneRelationPerName ==
    [][/\ NoDuplicateNames'
       /\ RelatedAgain => (last'.status = "DataSetException" /\ rels' = rels)]_vars

\* a relate_dataset was refused although its target is none of the DataSet
\* objects related so far: it only shares a name with one of them
C10_Witness ==
    /\ last.op = "relate"
    /\ last.status = "DataSetException"
    /\ \A i \in DOMAIN LastRelations : LastRelations[i].foreign_data_set # last.t

\* C14: after a read, every record of the DataSet is what resolving the
\* records as they were loaded through the relations the DataSet has now
\* yields, whatever was read or related before.
C14_ReadNotCached ==
    last.op = "read" =>
        \A i \in DOMAIN LastData :
            store[LastData[i]] =
                DataFrom(store0, ds, LastRelations, LastData, 1)[LastData[i]]

\* C15: a DataSet a filter built has the relations of its parent, whatever
\* was related on either of them since.
C15_SubsetSharesRelations ==
    \A d \in DOMAIN ds :
        origin[d].parent # 0 => rels[ds[d].rel] = rels[ds[origin[d].parent].rel]

\* a relation was declared on a DataSet after a filter had built a subset
\* of it
C15_Witness ==
    /\ last.op = "relate"
    /\ last.status = "ok"
    /\ \E d \in DOMAIN ds : origin[d].parent = last.d /\ rels[ds[d].rel] # <<>>

----------------------------------------------------------------------------
(* Properties of the filter *)

\* the type the DataSet of the last call gives the field of the last call
LastFieldType == ds[last.d].ftype[last.f]

\* C5: a filter by null on a field of the DataSet succeeds and yields
\* exactly the records that lack the field or hold null under it.
C5_NullFilterSucceeds ==
    (last.op = "filter" /\ last.v = Null /\ LastFieldType # "-") =>
        /\ last.status = "ok"
        /\ ds[last.res].data =
              SelectSeq(LastData, LAMBDA r : store[r][last.f].t \in {"absent", "NoneType"})
        /\ Len(ds[last.res].data) <= Len(LastData)

\* C6: a filter applied to the subset a filter with the same field and
\* value built succeeds and yields the records of that subset.
C6_FilterIdempotent ==
    (/\ last.op = "filter"
     /\ origin[last.d].parent # 0
     /\ origin[last.d].f = last.f
     /\ origin[last.d].v = last.v) =>
        /\ last.status = "ok"
        /\ ds[last.res].data = LastData

\* the call just made is a filter_by_value on a field that is not a list,
\* by a value that is not null and not of the field's type
Mismatched ==
    /\ last'.op = "filter"
    /\ ds[last'.d].ftype[last'.f] \notin {"-", "list"}
    /\ last'.v.t \notin {"NoneType", ds[last'.d].ftype[last'.f]}

\* C7: a filter on a field that is not a list, by a value that is not null
\* and not of the field's type, raises DataSetException and leaves the
\* records, the DataSets with their schemas and the relations as they were.
C7_TypeMismatchFails ==
    [][Mismatched => (/\ last'.status = "DataSetException"
                      /\ UNCHANGED <<store, ds, rels>>)]_vars

\* a filter by a value of another type than its field's was refused
C7_Witness ==
    /\ last.op = "filter"
    /\ last.status = "DataSetException"
    /\ LastFieldType \notin {"-", "list", last.v.t}
    /\ last.v # Null

\* C8: a filter on a list field succeeds and yields exactly the records
\* whose list holds the value, in the order of the DataSet.
C8_ListFilterByMembership ==
    (last.op = "filter" /\ LastFieldType = "list") =>
        /\ last.status = "ok"
        /\ ds[last.res].data =
              SelectSeq(LastData, LAMBDA r : \E x \in DOMAIN store[r][last.f].e :
                                                ElemEq(Elem(last.v), store[r][last.f].e[x]))

\* C9: a filter on a list field by a value that is not null and not of the
\* type of the list's elements raises DataSetException.
C9_ListElementTypeChecked ==
    (/\ last.op = "filter"
     /\ LastFieldType = "list"
     /\ last.v.t \notin {"NoneType", ds[last.d].ltype[last.f]}) =>
        last.status = "DataSetException"

\* the type check of the last filter passed: the field is a list, or the
\* value is null or of the field's type
LastTypeCheckPassed ==
    /\ last.op = "filter"
    /\ LastFieldType # "-"
    /\ LastFieldType = "list" \/ last.v.t \in {"NoneType", LastFieldType}

\* the records the last filter keeps
LastKept == Kept(store, LastData, LastFieldType, last.f, last.v)

\* some key of the records rs is null on every one of them
SomeFieldAllNull(rs) ==
    \E f \in AllFields :
        /\ \E i \in DOMAIN rs : HasKey(store[rs[i]], f)
        /\ \A i \in DOMAIN rs : Get(store[rs[i]], f) = Null

====
